---- MODULE Spec2Model ----
(***************************************************************************)
(* Model of telegram/helpers.py: escape_markdown, mention_markdown,        *)
(* effective_message_type, is_valid_bot_username, create_deep_linked_url.  *)
(*                                                                         *)
(* A Python str is a sequence of Unicode code points (naturals).  A value  *)
(* whose Python type matters is a record [t |-> type, v |-> payload].      *)
(* The outcome of a call is a record [kind, exc, msg, value]: kind is      *)
(* "return" or "raise".                                                    *)
(***************************************************************************)
EXTENDS Integers, Sequences, FiniteSets, TLC

VARIABLES pc, fn, args, result

vars == <<pc, fn, args, result>>

\* ------------------------------------------------------------------------
\* Bounds of the checked input space
\* ------------------------------------------------------------------------

\* longest text drawn over TextAlphabet
MaxTextLen == 3

\* largest integer markdown version tried (versions 0..MaxVersion)
MaxVersion == 3

\* a username is a head, up to MaxUserFill filler characters and a tail
MaxUserFill == 30

\* long payloads have DEEP_LINK_LENGTH - MaxPad .. DEEP_LINK_LENGTH + MaxPad
\* filler characters between a head and a tail
MaxPad == 2

\* longest payload drawn over SmallPayloadAlphabet
MaxPayloadLen == 3

\* ------------------------------------------------------------------------
\* Python values
\* ------------------------------------------------------------------------

None == [t |-> "None", v |-> <<>>]

PyStr(s) == [t |-> "str", v |-> s]

PyInt(n) == [t |-> "int", v |-> n]

\* a float with a value of h/2
PyFloat(h) == [t |-> "float", v |-> h]

PyBool(b) == [t |-> "bool", v |-> IF b THEN 1 ELSE 0]

Return(v) == [kind |-> "return", exc |-> "", msg |-> "", value |-> v]

Raise(e, m) == [kind |-> "raise", exc |-> e, msg |-> m, value |-> <<>>]

\* code points of the characters the module names
BACKSLASH == 92

NEWLINE == 10

HYPHEN == 45

UNDERSCORE == 95

Rep(c, n) == [i \in 1..n |-> c]

SeqsUpTo(S, n) == UNION {[1..k -> S] : k \in 0..n}

Range(s) == {s[i] : i \in 1..Len(s)}

\* ------------------------------------------------------------------------
\* The parts of Python's re and str the module uses
\* ------------------------------------------------------------------------

\* re._special_chars_map: ( ) [ ] { } ? * + - | ^ $ \ . & ~ # and whitespace
RE_SPECIAL == {40, 41, 91, 93, 123, 125, 63, 42, 43, 45, 124, 94, 36, 92, 46, 38, 126, 35,
               32, 9, 10, 13, 11, 12}

\* re_escape without the escaping: the class body is the raw escape_chars
re_escape_raw(s) == s

RECURSIVE re_escape(_)
\* re.escape(s): a backslash before every special character
re_escape(s) ==
    IF s = <<>> THEN <<>>
    ELSE (IF Head(s) \in RE_SPECIAL THEN <<BACKSLASH, Head(s)>> ELSE <<Head(s)>>)
         \o re_escape(Tail(s))

RECURSIVE ClassSet(_)
\* the set of characters a regex character-class body "[...]" denotes:
\* "\c" is the literal c, "a-b" is a range, a "-" that ends the body is literal
ClassSet(b) ==
    IF b = <<>> THEN {}
    ELSE LET w  == IF b[1] = BACKSLASH /\ Len(b) >= 2 THEN 2 ELSE 1
             lo == b[w]
             isRange == Len(b) >= w + 2 /\ b[w + 1] = HYPHEN
             hw == IF isRange /\ b[w + 2] = BACKSLASH /\ Len(b) >= w + 3 THEN 2 ELSE 1
             hi == b[w + 1 + hw]
         IN  IF isRange
             THEN (lo..hi) \cup ClassSet(SubSeq(b, w + 2 + hw, Len(b)))
             ELSE {lo} \cup ClassSet(SubSeq(b, w + 1, Len(b)))

RECURSIVE ExpandTemplate(_, _)
\* expansion of a re.sub replacement template: "\\" is a backslash, "\1" is group 1
ExpandTemplate(tpl, g1) ==
    IF tpl = <<>> THEN <<>>
    ELSE IF tpl[1] = BACKSLASH /\ Len(tpl) >= 2
         THEN (IF tpl[2] = 49 THEN g1 ELSE <<tpl[2]>>)
              \o ExpandTemplate(SubSeq(tpl, 3, Len(tpl)), g1)
         ELSE <<tpl[1]>> \o ExpandTemplate(Tail(tpl), g1)

RECURSIVE re_sub_class(_, _, _)
\* re.sub("([<class>])", repl, text): one left-to-right pass over text, each
\* character of the class replaced by the expansion of repl, the rest copied
re_sub_class(class, repl, text) ==
    IF text = <<>> THEN <<>>
    ELSE (IF Head(text) \in class THEN ExpandTemplate(repl, <<Head(text)>>)
                                  ELSE <<Head(text)>>)
         \o re_sub_class(class, repl, Tail(text))

\* Python whitespace that int() strips
PY_SPACE == {32, 9, 10, 11, 12, 13}

RECURSIVE lstrip(_)
lstrip(s) == IF s # <<>> /\ Head(s) \in PY_SPACE THEN lstrip(Tail(s)) ELSE s

RECURSIVE rstrip(_)
rstrip(s) ==
    IF s # <<>> /\ s[Len(s)] \in PY_SPACE THEN rstrip(SubSeq(s, 1, Len(s) - 1)) ELSE s

RECURSIVE DigitsValue(_)
\* value of a sequence of ASCII digits
DigitsValue(d) ==
    IF d = <<>> THEN 0 ELSE 10 * DigitsValue(SubSeq(d, 1, Len(d) - 1)) + (d[Len(d)] - 48)

\* int(x): [ok, v]; ok is FALSE when the conversion itself raises
py_int(x) ==
    CASE x.t = "int"   -> [ok |-> TRUE, exc |-> "", v |-> x.v]
      [] x.t = "bool"  -> [ok |-> TRUE, exc |-> "", v |-> x.v]
      [] x.t = "float" -> [ok |-> TRUE, exc |-> "",
                           v |-> IF x.v >= 0 THEN x.v \div 2 ELSE -((-x.v) \div 2)]
      [] x.t = "str"   ->
            LET s    == rstrip(lstrip(x.v))
                sign == s # <<>> /\ s[1] \in {43, 45}
                d    == IF sign THEN Tail(s) ELSE s
            IN  IF d # <<>> /\ \A i \in 1..Len(d) : d[i] \in 48..57
                THEN [ok |-> TRUE, exc |-> "",
                      v |-> IF sign /\ s[1] = 45 THEN -DigitsValue(d) ELSE DigitsValue(d)]
                ELSE [ok |-> FALSE, exc |-> "ValueError", v |-> 0]
      [] OTHER         -> [ok |-> FALSE, exc |-> "TypeError", v |-> 0]

RECURSIVE NatDigits(_)
NatDigits(n) == IF n < 10 THEN <<48 + n>> ELSE NatDigits(n \div 10) \o <<48 + (n % 10)>>

\* format(x) inside an f-string, for an int or a str
py_format(x) ==
    CASE x.t = "str" -> x.v
      [] x.t = "int" -> IF x.v < 0 THEN <<HYPHEN>> \o NatDigits(-x.v) ELSE NatDigits(x.v)

\* x == 1 in Python: numbers compare by value, a str never equals a number
py_eq_1(x) ==
    CASE x.t = "int"   -> x.v = 1
      [] x.t = "bool"  -> x.v = 1
      [] x.t = "float" -> x.v = 2
      [] OTHER         -> FALSE

\* ------------------------------------------------------------------------
\* escape_markdown
\* ------------------------------------------------------------------------

\* r"_*`["
ESCAPE_CHARS_V1 == <<95, 42, 96, 91>>

\* r"\`"
ESCAPE_CHARS_V2_PRE_CODE == <<92, 96>>

\* r"\)"
ESCAPE_CHARS_V2_LINK == <<92, 41>>

\* r"\_*[]()~`>#+-=|{}.!"
ESCAPE_CHARS_V2 == <<92, 95, 42, 91, 93, 40, 41, 126, 96, 62, 35, 43, 45, 61, 124, 123, 125, 46, 33>>

\* r"\\": the replacement without the group reference
ESCAPE_REPL_no_group == <<92, 92>>

\* r"\\\1"
ESCAPE_REPL == <<92, 92, 92, 49>>

\* entity_type is an opaque str tag; None is the tag "<None>"
NoEntity == "<None>"

\* the escape_chars the branches on version and entity_type select
escape_chars(v, entity_type) ==
    IF v = 1 THEN ESCAPE_CHARS_V1
    ELSE IF entity_type \in {"pre", "code"} THEN ESCAPE_CHARS_V2_PRE_CODE
    ELSE IF entity_type \in {"text_link", "custom_emoji"} THEN ESCAPE_CHARS_V2_LINK
    ELSE ESCAPE_CHARS_V2

\* escape_markdown with the version-2 rules for every version but 1, no error
escape_markdown_no_raise(text, version, entity_type) ==
    LET n == py_int(version)
    IN  IF ~n.ok THEN Raise(n.exc, "int() conversion")
        ELSE Return(re_sub_class(ClassSet(re_escape(escape_chars(n.v, entity_type))),
                                 ESCAPE_REPL, text))

escape_markdown(text, version, entity_type) ==
    LET n == py_int(version)
    IN  IF ~n.ok THEN Raise(n.exc, "int() conversion")
        ELSE IF n.v \notin {1, 2}
             THEN Raise("ValueError", "Markdown version must be either 1 or 2!")
             ELSE Return(re_sub_class(ClassSet(re_escape(escape_chars(n.v, entity_type))),
                                      ESCAPE_REPL, text))

\* ------------------------------------------------------------------------
\* mention_markdown
\* ------------------------------------------------------------------------

\* "tg://user?id="
TG_LINK_PREFIX == <<116, 103, 58, 47, 47, 117, 115, 101, 114, 63, 105, 100, 61>>

\* f"[{shown}]({tg_link})"
MarkdownLink(shown, tg_link) == <<91>> \o shown \o <<93, 40>> \o tg_link \o <<41>>

mention_markdown(user_id, name, version) ==
    LET tg_link == TG_LINK_PREFIX \o py_format(user_id)
    IN  IF py_eq_1(version) THEN Return(MarkdownLink(name, tg_link))
        ELSE LET e == escape_markdown(name, version, NoEntity)
             IN  IF e.kind = "raise" THEN e
                 ELSE Return(MarkdownLink(e.value, tg_link))

\* ------------------------------------------------------------------------
\* effective_message_type
\* ------------------------------------------------------------------------

\* None where a str tag is expected (entity_type, the classifier's result)
PyNoneTag == "<None>"

\* telegram.constants.MessageType: the members in their definition order
MessageType == <<"animation", "audio", "contact", "text">>

\* what a field of a message can hold, by the way bool() sees it:
\* None, False, an empty str or tuple, True, a non-empty value
FieldValues == {"None", "False", "empty", "True", "value"}

\* bool(v)
truthy(v) == v \in {"True", "value"}

RECURSIVE last_truthy_type(_, _)
\* first_truthy_type that keeps looping after a match: the last match wins
last_truthy_type(message, i) ==
    IF i > Len(MessageType) THEN PyNoneTag
    ELSE LET later == last_truthy_type(message, i + 1)
         IN  IF later # PyNoneTag THEN later
             ELSE IF truthy(message[MessageType[i]]) THEN MessageType[i]
             ELSE PyNoneTag

RECURSIVE first_truthy_type(_, _)
\* for message_type in MessageType: if message[message_type]: return message_type
first_truthy_type(message, i) ==
    IF i > Len(MessageType) THEN PyNoneTag
    ELSE IF truthy(message[MessageType[i]]) THEN MessageType[i]
    ELSE first_truthy_type(message, i + 1)

\* a Message is [t |-> "Message", v |-> fields]; an Update is
\* [t |-> "Update", v |-> its effective_message, a Message or None]
effective_message_type(entity) ==
    IF entity.t = "Message" THEN Return(first_truthy_type(entity.v, 1))
    ELSE IF entity.t = "Update"
         THEN IF entity.v.t = "None" THEN Return(PyNoneTag)
              ELSE Return(first_truthy_type(entity.v.v, 1))
         ELSE Raise("TypeError", "The entity is neither Message nor Update")

\* ------------------------------------------------------------------------
\* is_valid_bot_username
\* ------------------------------------------------------------------------

\* telegram.constants.MessageLimit
MIN_BOT_USERNAME_LENGTH == 4

MAX_BOT_USERNAME_LENGTH == 32

DEEP_LINK_LENGTH == 64

\* str.lower() of one character: ASCII and Latin-1 capitals, U+0130 (two code
\* points), U+212A KELVIN SIGN; every other character drawn here has no lower case
lower_char(c) ==
    IF c \in 65..90 THEN <<c + 32>>
    ELSE IF c \in 192..222 /\ c # 215 THEN <<c + 32>>
    ELSE IF c = 304 THEN <<105, 775>>
    ELSE IF c = 8490 THEN <<107>>
    ELSE <<c>>

RECURSIVE py_lower(_)
py_lower(s) == IF s = <<>> THEN <<>> ELSE lower_char(Head(s)) \o py_lower(Tail(s))

endswith(s, suffix) ==
    /\ Len(s) >= Len(suffix)
    /\ SubSeq(s, Len(s) - Len(suffix) + 1, Len(s)) = suffix

startswith(s, prefix) ==
    /\ Len(s) >= Len(prefix)
    /\ SubSeq(s, 1, Len(prefix)) = prefix

\* characters of Unicode category Nd and the digit-valued No ones drawn here:
\* 0-9, superscript 2 3 1, ARABIC-INDIC DIGITS
UNICODE_DIGITS == (48..57) \cup {178, 179, 185} \cup (1632..1641)

\* str.isdigit()
isdigit(s) == s # <<>> /\ \A i \in 1..Len(s) : s[i] \in UNICODE_DIGITS

\* "bot"
BOT_SUFFIX == <<98, 111, 116>>

\* the class body of r"[A-Za-z0-9_]*"
USERNAME_CLASS == <<65, 45, 90, 97, 45, 122, 48, 45, 57, 95>>

\* re.fullmatch("[<class>]*", s) is not None
re_fullmatch_class_star(body, s) == \A i \in 1..Len(s) : s[i] \in ClassSet(body)

\* is_valid_bot_username without the leading-underscore check
is_valid_bot_username_underscore(bot_username) ==
    IF bot_username.t = "None" THEN FALSE
    ELSE IF ~(MIN_BOT_USERNAME_LENGTH <= Len(bot_username.v)
              /\ Len(bot_username.v) <= MAX_BOT_USERNAME_LENGTH) THEN FALSE
    ELSE LET normalized_username == py_lower(bot_username.v)
         IN  IF \/ ~endswith(normalized_username, BOT_SUFFIX)
                \/ isdigit(SubSeq(normalized_username, 1, 1))
             THEN FALSE
             ELSE re_fullmatch_class_star(USERNAME_CLASS, bot_username.v)

is_valid_bot_username(bot_username) ==
    IF bot_username.t = "None" THEN FALSE
    ELSE IF ~(MIN_BOT_USERNAME_LENGTH <= Len(bot_username.v)
              /\ Len(bot_username.v) <= MAX_BOT_USERNAME_LENGTH) THEN FALSE
    ELSE LET normalized_username == py_lower(bot_username.v)
         IN  IF \/ ~endswith(normalized_username, BOT_SUFFIX)
                \/ startswith(normalized_username, <<UNDERSCORE>>)
                \/ isdigit(SubSeq(normalized_username, 1, 1))
             THEN FALSE
             ELSE re_fullmatch_class_star(USERNAME_CLASS, bot_username.v)

\* ------------------------------------------------------------------------
\* create_deep_linked_url
\* ------------------------------------------------------------------------

\* "https://t.me/"
T_ME == <<104, 116, 116, 112, 115, 58, 47, 47, 116, 46, 109, 101, 47>>

\* "startgroup"
KEY_STARTGROUP == <<115, 116, 97, 114, 116, 103, 114, 111, 117, 112>>

\* "start"
KEY_START == <<115, 116, 97, 114, 116>>

\* the class body of r"^[A-Za-z0-9_-]+$"
PAYLOAD_CLASS == <<65, 45, 90, 97, 45, 122, 48, 45, 57, 95, 45>>

\* re.match("^[<class>]+$", s): the class at least once from the start, then "$",
\* which matches at the end of s and also just before a newline that ends s
re_match_class_plus_dollar(body, s) ==
    \E k \in 1..Len(s) :
        /\ \A i \in 1..k : s[i] \in ClassSet(body)
        /\ \/ k = Len(s)
           \/ k = Len(s) - 1 /\ s[Len(s)] = NEWLINE

MSG_USERNAME == "You must provide a valid bot_username."

MSG_LENGTH == "The deep-linking payload must not exceed DEEP_LINK_LENGTH characters."

MSG_CHARS == "Only the following characters are allowed for deep-linked URLs: A-Z, a-z, 0-9, _ and -"

\* create_deep_linked_url that validates the username only when there is a payload
create_deep_linked_url_late_check(bot_username, payload, group) ==
    IF bot_username.t = "str" /\ (payload.t = "None" \/ payload.v = <<>>)
    THEN Return(T_ME \o bot_username.v)
    ELSE IF ~is_valid_bot_username(bot_username) THEN Raise("ValueError", MSG_USERNAME)
    ELSE IF Len(payload.v) > DEEP_LINK_LENGTH THEN Raise("ValueError", MSG_LENGTH)
    ELSE IF ~re_match_class_plus_dollar(PAYLOAD_CLASS, payload.v)
         THEN Raise("ValueError", MSG_CHARS)
         ELSE LET key == IF group THEN KEY_STARTGROUP ELSE KEY_START
              IN  Return(T_ME \o bot_username.v \o <<63>> \o key \o <<61>> \o payload.v)

\* create_deep_linked_url with the two keys exchanged
create_deep_linked_url_swapped_key(bot_username, payload, group) ==
    IF ~is_valid_bot_username(bot_username) THEN Raise("ValueError", MSG_USERNAME)
    ELSE LET base_url == T_ME \o bot_username.v
         IN  IF payload.t = "None" \/ payload.v = <<>> THEN Return(base_url)
             ELSE IF Len(payload.v) > DEEP_LINK_LENGTH THEN Raise("ValueError", MSG_LENGTH)
             ELSE IF ~re_match_class_plus_dollar(PAYLOAD_CLASS, payload.v)
                  THEN Raise("ValueError", MSG_CHARS)
                  ELSE LET key == IF group THEN KEY_START ELSE KEY_STARTGROUP
                       IN  Return(base_url \o <<63>> \o key \o <<61>> \o payload.v)

\* create_deep_linked_url with the length compared by >= instead of >
create_deep_linked_url_off_by_one(bot_username, payload, group) ==
    IF ~is_valid_bot_username(bot_username) THEN Raise("ValueError", MSG_USERNAME)
    ELSE LET base_url == T_ME \o bot_username.v
         IN  IF payload.t = "None" \/ payload.v = <<>> THEN Return(base_url)
             ELSE IF Len(payload.v) >= DEEP_LINK_LENGTH THEN Raise("ValueError", MSG_LENGTH)
             ELSE IF ~re_match_class_plus_dollar(PAYLOAD_CLASS, payload.v)
                  THEN Raise("ValueError", MSG_CHARS)
                  ELSE LET key == IF group THEN KEY_STARTGROUP ELSE KEY_START
                       IN  Return(base_url \o <<63>> \o key \o <<61>> \o payload.v)

create_deep_linked_url(bot_username, payload, group) ==
    IF ~is_valid_bot_username(bot_username) THEN Raise("ValueError", MSG_USERNAME)
    ELSE LET base_url == T_ME \o bot_username.v
         IN  IF payload.t = "None" \/ payload.v = <<>> THEN Return(base_url)
             ELSE IF Len(payload.v) > DEEP_LINK_LENGTH THEN Raise("ValueError", MSG_LENGTH)
             ELSE IF ~re_match_class_plus_dollar(PAYLOAD_CLASS, payload.v)
                  THEN Raise("ValueError", MSG_CHARS)
                  ELSE LET key == IF group THEN KEY_STARTGROUP ELSE KEY_START
                       IN  Return(base_url \o <<63>> \o key \o <<61>> \o payload.v)

\* ------------------------------------------------------------------------
\* Inputs
\* ------------------------------------------------------------------------

\* a  \  _  `  )  .
TextAlphabet == {97, 92, 95, 96, 41, 46}

\* every one-character ASCII text, and every text up to MaxTextLen over TextAlphabet
Texts == {<<c>> : c \in 0..127} \cup SeqsUpTo(TextAlphabet, MaxTextLen)

\* "1", "2", "3", " 2 ", "+1", "x", ""
VersionStrs == {<<49>>, <<50>>, <<51>>, <<32, 50, 32>>, <<43, 49>>, <<120>>, <<>>}

Versions ==
    {PyInt(n) : n \in 0..MaxVersion} \cup {PyInt(-1)} \cup {PyStr(s) : s \in VersionStrs}
    \cup {PyFloat(h) : h \in {2, 3, 4, 5, 6}} \cup {PyBool(TRUE), PyBool(FALSE)}

EntityTypes == {NoEntity, "pre", "code", "text_link", "custom_emoji", "bold"}

UserIds == {PyInt(123), PyInt(-7), PyStr(<<52, 50>>)}

\* a A _ 1 and superscript 2, ARABIC-INDIC 1, -, U+0130, KELVIN SIGN, e-acute, space
UserHeads == {<<>>, <<97>>, <<65>>, <<95>>, <<49>>, <<178>>, <<1633>>, <<45>>, <<304>>,
              <<8490>>, <<233>>, <<32>>}

\* x 7 .
UserFillChars == {120, 55, 46}

\* bot Bot BOT bOt boT bo ot bots bot_ b.ot bot\n and the empty tail
UserTails == {<<98, 111, 116>>, <<66, 111, 116>>, <<66, 79, 84>>, <<98, 79, 116>>,
              <<98, 111, 84>>, <<98, 111>>, <<111, 116>>, <<98, 111, 116, 115>>,
              <<98, 111, 116, 95>>, <<98, 46, 111, 116>>, <<98, 111, 116, 10>>, <<>>}

Usernames ==
    {None} \cup {PyStr(h \o Rep(f, n) \o t) :
                    h \in UserHeads, f \in UserFillChars, n \in 0..MaxUserFill, t \in UserTails}

\* the usernames the URL builder is called with: valid and invalid ones of
\* lengths 2..6 and around MAX_BOT_USERNAME_LENGTH
LinkUsernames ==
    {None} \cup {PyStr(h \o Rep(120, n) \o t) :
                    h \in {<<>>, <<97>>, <<95>>, <<49>>},
                    n \in {0, 1, MAX_BOT_USERNAME_LENGTH - 4},
                    t \in {<<98, 111, 116>>, <<66, 111, 116>>, <<98, 111>>, <<98, 33, 116>>}}

\* a - space newline
SmallPayloadAlphabet == {97, 45, 32, 10}

LongPayloads ==
    {h \o Rep(97, n) \o t :
        h \in SeqsUpTo(SmallPayloadAlphabet, 1),
        n \in (DEEP_LINK_LENGTH - MaxPad)..(DEEP_LINK_LENGTH + MaxPad),
        t \in SeqsUpTo(SmallPayloadAlphabet, 1)}

\* None, every one-character ASCII payload and e-acute, every payload up to
\* MaxPayloadLen over SmallPayloadAlphabet, and payloads around the length limit
Payloads ==
    {None} \cup {PyStr(<<c>>) : c \in (0..127) \cup {233}}
    \cup {PyStr(p) : p \in SeqsUpTo(SmallPayloadAlphabet, MaxPayloadLen)}
    \cup {PyStr(p) : p \in LongPayloads}

Messages == {[t |-> "Message", v |-> f] : f \in [Range(MessageType) -> FieldValues]}

Updates == {[t |-> "Update", v |-> m] : m \in Messages \cup {None}}

\* None, an int and a str: neither Message nor Update
OtherEntities == {None, PyInt(5), PyStr(<<116, 101, 120, 116>>)}

Entities == Messages \cup Updates \cup OtherEntities

\* ------------------------------------------------------------------------
\* Calls
\* ------------------------------------------------------------------------

NoArgs == [none |-> TRUE]

Init ==
    /\ pc = "idle"
    /\ fn = "none"
    /\ args = NoArgs
    /\ result = Return(<<>>)

CallEscapeMarkdown ==
    /\ pc = "idle"
    /\ \E text \in Texts, version \in Versions, entity_type \in EntityTypes :
          /\ fn' = "escape_markdown"
          /\ args' = [text |-> text, version |-> version, entity_type |-> entity_type]
          /\ result' = escape_markdown(text, version, entity_type)
    /\ pc' = "done"

CallMentionMarkdown ==
    /\ pc = "idle"
    /\ \E user_id \in UserIds, name \in Texts, version \in Versions :
          /\ fn' = "mention_markdown"
          /\ args' = [user_id |-> user_id, name |-> name, version |-> version]
          /\ result' = mention_markdown(user_id, name, version)
    /\ pc' = "done"

CallEffectiveMessageType ==
    /\ pc = "idle"
    /\ \E entity \in Entities :
          /\ fn' = "effective_message_type"
          /\ args' = [entity |-> entity]
          /\ result' = effective_message_type(entity)
    /\ pc' = "done"

CallIsValidBotUsername ==
    /\ pc = "idle"
    /\ \E bot_username \in Usernames :
          /\ fn' = "is_valid_bot_username"
          /\ args' = [bot_username |-> bot_username]
          /\ result' = Return(is_valid_bot_username(bot_username))
    /\ pc' = "done"

CallCreateDeepLinkedUrl ==
    /\ pc = "idle"
    /\ \E bot_username \in LinkUsernames, payload \in Payloads, group \in BOOLEAN :
          /\ fn' = "create_deep_linked_url"
          /\ args' = [bot_username |-> bot_username, payload |-> payload, group |-> group]
          /\ result' = create_deep_linked_url(bot_username, payload, group)
    /\ pc' = "done"

\* the caller takes the outcome; the helpers keep no state between calls
Finish ==
    /\ pc = "done"
    /\ pc' = "idle"
    /\ fn' = "none"
    /\ args' = NoArgs
    /\ result' = Return(<<>>)

Next ==
    \/ CallEscapeMarkdown
    \/ CallMentionMarkdown
    \/ CallEffectiveMessageType
    \/ CallIsValidBotUsername
    \/ CallCreateDeepLinkedUrl
    \/ Finish

Spec == Init /\ [][Next]_vars

\* ------------------------------------------------------------------------
\* Properties
\* ------------------------------------------------------------------------

\* the two forms of each supported version: the int and the str
VersionOne == {PyInt(1), PyStr(<<49>>)}

VersionTwo == {PyInt(2), PyStr(<<50>>)}

\* the escape class the documentation gives for a version and an entity type:
\* _ * ` [ for version 1, and for version 2 \ ` (pre, code), \ ) (text_link,
\* custom_emoji) or \ _ * [ ] ( ) ~ ` > # + - = | { } . !
ActiveClass(version, entity_type) ==
    IF version \in VersionOne THEN {95, 42, 96, 91}
    ELSE IF entity_type \in {"pre", "code"} THEN {92, 96}
    ELSE IF entity_type \in {"text_link", "custom_emoji"} THEN {92, 41}
    ELSE {92, 95, 42, 91, 93, 40, 41, 126, 96, 62, 35, 43, 45, 61, 124, 123, 125, 46, 33}

\* how many of the first i characters of text are in class
CountIn(text, i, class) == Cardinality({j \in 1..i : text[j] \in class})

\* out is text with one backslash put before each character of class: the i-th
\* character of text sits at i + (class characters up to i), a class character
\* has a backslash right before it, and out has no other position
EscapedAs(text, out, class) ==
    /\ Len(out) = Len(text) + CountIn(text, Len(text), class)
    /\ \A i \in 1..Len(text) :
          LET p == i + CountIn(text, i, class)
          IN  /\ out[p] = text[i]
              /\ text[i] \in class => out[p - 1] = BACKSLASH

\* C3: escape_markdown with version 1 or 2 returns the text with exactly one
\* backslash before every character of the active escape class and every other
\* character unchanged and in order; a text without such a character is
\* returned unchanged.
C3_EscapeInsertsOneBackslash ==
    (pc = "done" /\ fn = "escape_markdown" /\ args.version \in VersionOne \cup VersionTwo)
    => LET class == ActiveClass(args.version, args.entity_type)
       IN  /\ result.kind = "return"
           /\ EscapedAs(args.text, result.value, class)
           /\ (Range(args.text) \cap class = {}) => result.value = args.text

\* escape_markdown("a\.", 2) has returned "a\\\."
C3_Witness ==
    /\ pc = "done" /\ fn = "escape_markdown"
    /\ args.text = <<97, 92, 46>> /\ args.version = PyInt(2) /\ args.entity_type = NoEntity
    /\ result = Return(<<97, 92, 92, 92, 46>>)

\* C9: escaping is not idempotent: escaping the result once more, under the
\* same version and entity type, gives the same string exactly when the text
\* has no character of the active escape class.
C9_EscapeNotIdempotent ==
    (pc = "done" /\ fn = "escape_markdown" /\ args.version \in VersionOne \cup VersionTwo)
    => LET again == escape_markdown(result.value, args.version, args.entity_type)
       IN  /\ result.kind = "return" /\ again.kind = "return"
           /\ (again.value = result.value)
              <=> (Range(args.text) \cap ActiveClass(args.version, args.entity_type) = {})

\* escape_markdown("_", 1) has returned "\_", which has a character of the class
C9_Witness ==
    /\ pc = "done" /\ fn = "escape_markdown"
    /\ args.text = <<95>> /\ args.version \in VersionOne
    /\ result = Return(<<92, 95>>)
    /\ escape_markdown(result.value, args.version, args.entity_type).value = <<92, 92, 95>>

\* a version that converts to an integer other than 1 and 2
UnsupportedVersion(version) ==
    \/ version.t \in {"int", "bool"} /\ version.v \notin {1, 2}
    \/ version.t = "float" /\ version.v \notin 2..5
    \/ version = PyStr(<<51>>)

\* a version that converts to the integer 1 or 2
SupportedVersion(version) ==
    \/ version.t \in {"int", "bool"} /\ version.v \in {1, 2}
    \/ version.t = "float" /\ version.v \in 2..5
    \/ version \in {PyStr(<<49>>), PyStr(<<50>>), PyStr(<<32, 50, 32>>), PyStr(<<43, 49>>)}

VersionError == Raise("ValueError", "Markdown version must be either 1 or 2!")

\* C10: escape_markdown raises ValueError, and returns nothing, for every
\* version whose integer value is neither 1 nor 2, whatever the text and the
\* entity type; mention_markdown raises the same error for such a version and
\* raises nothing for versions 1 and 2.
C10_UnsupportedVersionRaises ==
    /\ (pc = "done" /\ fn = "escape_markdown" /\ UnsupportedVersion(args.version))
       => result = VersionError
    /\ (pc = "done" /\ fn = "mention_markdown" /\ UnsupportedVersion(args.version))
       => result = VersionError
    /\ (pc = "done" /\ fn = "mention_markdown" /\ SupportedVersion(args.version))
       => result.kind = "return"

\* mention_markdown(123, "", "3") has raised the escaper's ValueError
C10_Witness ==
    /\ pc = "done" /\ fn = "mention_markdown"
    /\ args.name = <<>> /\ args.version = PyStr(<<51>>)
    /\ result = VersionError

\* C4: mention_markdown returns "[name](tg://user?id=user_id)" with the name
\* verbatim for version 1, given as 1 or as "1", and with the name escaped by
\* escape_markdown(name, 2) for version 2, given as 2 or as "2".
C4_MentionMarkdownVerbatimV1 ==
    (pc = "done" /\ fn = "mention_markdown")
    => LET tg_link == TG_LINK_PREFIX \o py_format(args.user_id)
       IN  /\ args.version \in VersionOne
              => result = Return(<<91>> \o args.name \o <<93, 40>> \o tg_link \o <<41>>)
           /\ args.version \in VersionTwo
              => result = Return(<<91>> \o escape_markdown(args.name, PyInt(2), NoEntity).value
                                 \o <<93, 40>> \o tg_link \o <<41>>)

\* ASCII letters and digits
AsciiAlnum == (65..90) \cup (97..122) \cup (48..57)

\* the six rules of a bot username, on the characters of the value itself
SixRules(u) ==
    /\ u.t # "None"
    /\ Len(u.v) >= 4 /\ Len(u.v) <= 32
    /\ LET n == Len(u.v)
       IN  /\ u.v[n - 2] \in {98, 66} /\ u.v[n - 1] \in {111, 79} /\ u.v[n] \in {116, 84}
           /\ u.v[1] # 95
           /\ u.v[1] \notin 48..57
           /\ \A i \in 1..n : u.v[i] \in AsciiAlnum \cup {95}

\* C2: is_valid_bot_username returns true exactly when the value is not absent,
\* has 4 to 32 characters, ends with "bot" in any case, starts with neither "_"
\* nor a digit and has only ASCII letters, digits and "_"; it returns false
\* otherwise and never raises.
C2_UsernameValidIffSixRules ==
    (pc = "done" /\ fn = "is_valid_bot_username")
    => result = Return(SixRules(args.bot_username))

\* is_valid_bot_username of "A", 28 times "x" and "BOT" (32 characters) is true
C2_Witness ==
    /\ pc = "done" /\ fn = "is_valid_bot_username"
    /\ args.bot_username = PyStr(<<65>> \o Rep(120, 28) \o <<66, 79, 84>>)
    /\ result = Return(TRUE)

\* the index of the first message type whose field is truthy, 0 when none is
FirstTruthyIndex(fields) ==
    IF \E i \in 1..Len(MessageType) : truthy(fields[MessageType[i]])
    THEN CHOOSE i \in 1..Len(MessageType) :
            /\ truthy(fields[MessageType[i]])
            /\ \A j \in 1..(i - 1) : ~truthy(fields[MessageType[j]])
    ELSE 0

\* the tag the classifier owes for the fields of a message
ExpectedType(fields) ==
    IF FirstTruthyIndex(fields) = 0 THEN PyNoneTag ELSE MessageType[FirstTruthyIndex(fields)]

\* C5: effective_message_type returns, for a message, the first message type in
\* enumeration order whose field is truthy, and None when no field is; for an
\* update, None when it has no effective message and else the result for that
\* message; for any other value it raises TypeError.
C5_FirstTruthyTypeWins ==
    (pc = "done" /\ fn = "effective_message_type")
    => LET e == args.entity
       IN  /\ e.t = "Message" => result = Return(ExpectedType(e.v))
           /\ (e.t = "Update" /\ e.v.t = "None") => result = Return(PyNoneTag)
           /\ (e.t = "Update" /\ e.v.t = "Message") => result = Return(ExpectedType(e.v.v))
           /\ e.t \notin {"Message", "Update"}
              => (result.kind = "raise" /\ result.exc = "TypeError")

\* an update whose message has an empty animation and both audio and text set
\* has been classified as audio
C5_Witness ==
    /\ pc = "done" /\ fn = "effective_message_type"
    /\ args.entity.t = "Update" /\ args.entity.v.t = "Message"
    /\ args.entity.v.v["animation"] = "empty"
    /\ args.entity.v.v["audio"] = "value"
    /\ args.entity.v.v["text"] = "True"
    /\ result = Return("audio")

\* the characters a deep-link payload may have: A-Z a-z 0-9 _ -
PayloadAllowed == AsciiAlnum \cup {95, 45}

\* C1: for a valid username and a non-empty payload within the length limit,
\* create_deep_linked_url raises ValueError whenever some character of the
\* payload, at any position, is outside A-Z a-z 0-9 _ -, line breaks included.
C1_DisallowedCharacterRaises ==
    (/\ pc = "done" /\ fn = "create_deep_linked_url"
     /\ SixRules(args.bot_username)
     /\ args.payload.t = "str"
     /\ Len(args.payload.v) >= 1 /\ Len(args.payload.v) <= DEEP_LINK_LENGTH
     /\ \E i \in 1..Len(args.payload.v) : args.payload.v[i] \notin PayloadAllowed)
    => (result.kind = "raise" /\ result.exc = "ValueError")

\* C6: create_deep_linked_url raises ValueError for every username that
\* is_valid_bot_username rejects, whatever the payload and the group flag, so
\* every URL it returns has a username the validator accepts.
C6_UsernameCheckedFirst ==
    (pc = "done" /\ fn = "create_deep_linked_url")
    => /\ ~is_valid_bot_username(args.bot_username)
          => result = Raise("ValueError", MSG_USERNAME)
       /\ result.kind = "return" => SixRules(args.bot_username)

\* "_bot" with a payload that is too long and has a space: the username error
C6_Witness ==
    /\ pc = "done" /\ fn = "create_deep_linked_url"
    /\ args.bot_username = PyStr(<<95, 98, 111, 116>>)
    /\ args.payload.t = "str" /\ Len(args.payload.v) > DEEP_LINK_LENGTH
    /\ 32 \in Range(args.payload.v)
    /\ result = Raise("ValueError", MSG_USERNAME)

\* "?startgroup=" and "?start="
QueryStartGroup == <<63, 115, 116, 97, 114, 116, 103, 114, 111, 117, 112, 61>>

QueryStart == <<63, 115, 116, 97, 114, 116, 61>>

\* C7: for a valid username create_deep_linked_url returns
\* "https://t.me/{username}" when the payload is absent or empty, whatever the
\* group flag, and for a non-empty payload of allowed characters within the
\* limit "https://t.me/{username}?startgroup={payload}" when group is set and
\* "https://t.me/{username}?start={payload}" when it is not.
C7_UrlShape ==
    (pc = "done" /\ fn = "create_deep_linked_url" /\ SixRules(args.bot_username))
    => LET base == <<104, 116, 116, 112, 115, 58, 47, 47, 116, 46, 109, 101, 47>>
                   \o args.bot_username.v
           p == args.payload
       IN  /\ (p.t = "None" \/ p.v = <<>>) => result = Return(base)
           /\ (/\ p.t = "str" /\ p.v # <<>> /\ Len(p.v) <= DEEP_LINK_LENGTH
               /\ Range(p.v) \subseteq PayloadAllowed)
              => result = Return(base \o (IF args.group THEN QueryStartGroup ELSE QueryStart)
                                 \o p.v)

\* "aBot" with payload "a-a" and group set
C7_Witness ==
    /\ pc = "done" /\ fn = "create_deep_linked_url"
    /\ args.bot_username = PyStr(<<97, 66, 111, 116>>)
    /\ args.payload = PyStr(<<97, 45, 97>>) /\ args.group
    /\ result = Return(<<104, 116, 116, 112, 115, 58, 47, 47, 116, 46, 109, 101, 47,
                         97, 66, 111, 116>> \o QueryStartGroup \o <<97, 45, 97>>)

\* C8: for a valid username create_deep_linked_url raises the length ValueError
\* for every payload longer than DEEP_LINK_LENGTH, allowed characters or not,
\* accepts a payload of allowed characters of exactly that length, and returns
\* no URL for a longer payload.
C8_LengthLimit ==
    (/\ pc = "done" /\ fn = "create_deep_linked_url"
     /\ SixRules(args.bot_username) /\ args.payload.t = "str")
    => LET p == args.payload.v
       IN  /\ Len(p) > DEEP_LINK_LENGTH => result = Raise("ValueError", MSG_LENGTH)
           /\ (Len(p) = DEEP_LINK_LENGTH /\ Range(p) \subseteq PayloadAllowed)
              => result.kind = "return"
           /\ result.kind = "return" => Len(p) <= DEEP_LINK_LENGTH

\* a payload of DEEP_LINK_LENGTH + 1 characters, a space among them, has been
\* refused for its length
C8_Witness ==
    /\ pc = "done" /\ fn = "create_deep_linked_url"
    /\ SixRules(args.bot_username)
    /\ args.payload.t = "str" /\ Len(args.payload.v) = DEEP_LINK_LENGTH + 1
    /\ 32 \in Range(args.payload.v)
    /\ result = Raise("ValueError", MSG_LENGTH)

====
